---- MODULE Spec2Model ----
(***************************************************************************)
(* Model of the localization-file core of LangTranslateTool (src/core.py): *)
(* LangFileParser (detect_format, parse, generate_output), TextElement and *)
(* ModDictionary (load_original_file, load_translated_file, export).       *)
(*                                                                         *)
(* A Python str is a sequence of one-character strings.  The character     *)
(* U+FEFF is written BOM.  The parsers below work character by character   *)
(* as the Python code and the json module of the standard library do.      *)
(***************************************************************************)
EXTENDS Integers, Sequences, FiniteSets, TLC

\* format, keys, text_dictionary: the fields of a ModDictionary; last: what
\* its last call returned.  args, ret: the arguments and the return value of
\* a call of one of the static methods of LangFileParser.
VARIABLES format, keys, text_dictionary, last, args, ret, mod_dictionary, main, loader

vars == <<format, keys, text_dictionary, last, args, ret, mod_dictionary, main, loader>>

(***************************************************************************)
(* Characters                                                              *)
(***************************************************************************)
BOM == "BOM"
NL == "\n"
SP == " "
EQ == "="
QUOTE == "\""
BACKSLASH == "\\"

\* str.strip() with no argument removes whitespace; of the characters used
\* here the whitespace characters are the space and the newline.
IsSpace(c) == c \in {SP, NL}

\* The whitespace json.decoder skips (WHITESPACE_STR = ' \t\n\r').
IsJsonWs(c) == c \in {SP, NL}

IsDigit(c) == c \in {"0", "1"}

(***************************************************************************)
(* Python str methods                                                      *)
(***************************************************************************)
\* s[i:] with a 1-based i
Tail_from(s, i) == SubSeq(s, i, Len(s))

\* str.lstrip(BOM): drop every leading U+FEFF
lstrip_bom(s) ==
    LET n == CHOOSE i \in 0..Len(s) :
                 /\ \A j \in 1..i : s[j] = BOM
                 /\ (i = Len(s) \/ s[i + 1] # BOM)
    IN  Tail_from(s, n + 1)

\* str.strip()
strip(s) ==
    LET a == CHOOSE i \in 1..(Len(s) + 1) :
                 /\ \A j \in 1..(i - 1) : IsSpace(s[j])
                 /\ (i = Len(s) + 1 \/ ~IsSpace(s[i]))
        b == CHOOSE i \in 0..Len(s) :
                 /\ \A j \in (i + 1)..Len(s) : IsSpace(s[j])
                 /\ (i = 0 \/ ~IsSpace(s[i]))
    IN  IF a > b THEN <<>> ELSE SubSeq(s, a, b)

\* str.find(c): 1-based index of the first c, 0 when there is none
\* (Python returns the 0-based index, -1 when there is none)
find(s, c) ==
    IF \E i \in 1..Len(s) : s[i] = c
    THEN CHOOSE i \in 1..Len(s) : s[i] = c /\ \A j \in 1..(i - 1) : s[j] # c
    ELSE 0

\* str.startswith(p)
startswith(s, p) == Len(s) >= Len(p) /\ SubSeq(s, 1, Len(p)) = p

\* str.split("\n"): the list of lines, always at least one
RECURSIVE split_nl(_)
split_nl(s) ==
    LET i == find(s, NL)
    IN  IF i = 0 THEN <<s>>
        ELSE <<SubSeq(s, 1, i - 1)>> \o split_nl(Tail_from(s, i + 1))

\* sep.join(parts)
RECURSIVE join(_, _)
join(sep, parts) ==
    IF Len(parts) = 0 THEN <<>>
    ELSE IF Len(parts) = 1 THEN parts[1]
    ELSE parts[1] \o sep \o join(sep, Tail(parts))

(***************************************************************************)
(* Python dict: insertion-ordered mapping, built from (key, value) pairs.  *)
(* A later pair with a key already present replaces the value and keeps    *)
(* the key's first position.                                               *)
(***************************************************************************)
EmptyDict == [order |-> <<>>, val |-> <<>>]

Range(s) == {s[i] : i \in 1..Len(s)}

dict_has(d, k) == k \in Range(d.order)

dict_set(d, k, v) ==
    [order |-> IF dict_has(d, k) THEN d.order ELSE Append(d.order, k),
     val   |-> [x \in Range(d.order) \cup {k} |-> IF x = k THEN v ELSE d.val[x]]]

RECURSIVE dict_from_pairs(_, _)
dict_from_pairs(d, pairs) ==
    IF pairs = <<>> THEN d
    ELSE dict_from_pairs(dict_set(d, pairs[1].k, pairs[1].v), Tail(pairs))

(***************************************************************************)
(* json.loads (json/decoder.py of the standard library), for the JSON      *)
(* texts that can be written with the characters above.  A decoded value   *)
(* is [t |-> type, s |-> characters of a str]; an object decoded at the    *)
(* top level also carries its (key, value) pairs in source order.          *)
(***************************************************************************)
JFail == [ok |-> FALSE, val |-> [t |-> "none", s |-> <<>>], pairs |-> <<>>, next |-> 0]
JVal(t, s, pairs, next) == [ok |-> TRUE, val |-> [t |-> t, s |-> s], pairs |-> pairs, next |-> next]

\* index of the first non-whitespace character at or after i
skip_ws(s, i) ==
    CHOOSE n \in i..(Len(s) + 1) :
        /\ \A j \in i..(n - 1) : IsJsonWs(s[j])
        /\ (n = Len(s) + 1 \/ ~IsJsonWs(s[n]))

\* py_scanstring, strict: i is the index after the opening quote
RECURSIVE scanstring(_, _, _)
scanstring(s, i, acc) ==
    IF i > Len(s) THEN JFail                               \* unterminated string
    ELSE IF s[i] = QUOTE THEN JVal("str", acc, <<>>, i + 1)
    ELSE IF s[i] = NL THEN JFail                           \* control character
    ELSE IF s[i] = BACKSLASH THEN
        IF i + 1 > Len(s) THEN JFail
        ELSE IF s[i + 1] \in {QUOTE, BACKSLASH, "/"}
             THEN scanstring(s, i + 2, Append(acc, s[i + 1]))
        ELSE IF s[i + 1] = "n" THEN scanstring(s, i + 2, Append(acc, NL))
        ELSE JFail                                         \* invalid \escape
    ELSE scanstring(s, i + 1, Append(acc, s[i]))

\* NUMBER_RE match at i: the integer part is 0 or a non-zero digit and digits
match_number(s, i) ==
    IF s[i] = "0" THEN i + 1
    ELSE CHOOSE n \in (i + 1)..(Len(s) + 1) :
             /\ \A j \in i..(n - 1) : IsDigit(s[j])
             /\ (n = Len(s) + 1 \/ ~IsDigit(s[n]))

RECURSIVE scan_once(_, _)
RECURSIVE JSONObject(_, _, _)
RECURSIVE JSONArray(_, _)

\* JSONObject: i is the index of the opening quote of the next key
JSONObject(s, i, pairs) ==
    LET key == scanstring(s, i + 1, <<>>)
    IN  IF ~key.ok THEN JFail
        ELSE
        LET c == skip_ws(s, key.next)
        IN  IF c > Len(s) \/ s[c] # ":" THEN JFail         \* expecting ':'
            ELSE
            LET v == scan_once(s, skip_ws(s, c + 1))
            IN  IF ~v.ok THEN JFail
                ELSE
                LET ps == Append(pairs, [k |-> key.val.s, v |-> v.val])
                    e  == skip_ws(s, v.next)
                IN  IF e > Len(s) THEN JFail
                    ELSE IF s[e] = "}" THEN JVal("dict", <<>>, ps, e + 1)
                    ELSE IF s[e] # "," THEN JFail          \* expecting ','
                    ELSE
                    LET n == skip_ws(s, e + 1)
                    IN  IF n > Len(s) \/ s[n] # QUOTE THEN JFail
                        ELSE JSONObject(s, n, ps)

\* JSONArray: i is the index of the next element
JSONArray(s, i) ==
    LET v == scan_once(s, i)
    IN  IF ~v.ok THEN JFail
        ELSE
        LET e == skip_ws(s, v.next)
        IN  IF e > Len(s) THEN JFail
            ELSE IF s[e] = "]" THEN JVal("list", <<>>, <<>>, e + 1)
            ELSE IF s[e] # "," THEN JFail
            ELSE JSONArray(s, skip_ws(s, e + 1))

\* scanner.py_make_scanner._scan_once
scan_once(s, i) ==
    IF i > Len(s) THEN JFail
    ELSE IF s[i] = QUOTE THEN scanstring(s, i + 1, <<>>)
    ELSE IF s[i] = "{" THEN
        LET n == skip_ws(s, i + 1)
        IN  IF n > Len(s) THEN JFail
            ELSE IF s[n] = "}" THEN JVal("dict", <<>>, <<>>, n + 1)
            ELSE IF s[n] # QUOTE THEN JFail
            ELSE JSONObject(s, n, <<>>)
    ELSE IF s[i] = "[" THEN
        LET n == skip_ws(s, i + 1)
        IN  IF n > Len(s) THEN JFail
            ELSE IF s[n] = "]" THEN JVal("list", <<>>, <<>>, n + 1)
            ELSE JSONArray(s, n)
    ELSE IF IsDigit(s[i]) THEN JVal("int", <<>>, <<>>, match_number(s, i))
    ELSE JFail

\* json.loads(s): [ok, t, s, items]; items is the dict of a top-level object.
\* ok = FALSE is json.JSONDecodeError.
json_loads(s) ==
    IF startswith(s, <<BOM>>) THEN [ok |-> FALSE, t |-> "none", s |-> <<>>, items |-> EmptyDict]
    ELSE
    LET r == scan_once(s, skip_ws(s, 1))
    IN  IF ~r.ok \/ skip_ws(s, r.next) # Len(s) + 1          \* extra data
        THEN [ok |-> FALSE, t |-> "none", s |-> <<>>, items |-> EmptyDict]
        ELSE [ok |-> TRUE, t |-> r.val.t, s |-> r.val.s,
              items |-> dict_from_pairs(EmptyDict, r.pairs)]

(***************************************************************************)
(* json.dumps(d, ensure_ascii=False, indent=4) of a dict of str to str     *)
(***************************************************************************)
\* encoder.py_encode_basestring: ESCAPE_DCT for the characters used here
RECURSIVE encode_basestring_body(_)
encode_basestring_body(s) ==
    IF s = <<>> THEN <<>>
    ELSE (IF Head(s) = QUOTE THEN <<BACKSLASH, QUOTE>>
          ELSE IF Head(s) = BACKSLASH THEN <<BACKSLASH, BACKSLASH>>
          ELSE IF Head(s) = NL THEN <<BACKSLASH, "n">>
          ELSE <<Head(s)>>) \o encode_basestring_body(Tail(s))

encode_basestring(s) == <<QUOTE>> \o encode_basestring_body(s) \o <<QUOTE>>

Indent4 == <<SP, SP, SP, SP>>

json_dumps(d) ==
    IF d.order = <<>> THEN <<"{", "}">>
    ELSE <<"{", NL>>
         \o join(<<",", NL>>,
                 [i \in 1..Len(d.order) |->
                     Indent4 \o encode_basestring(d.order[i]) \o <<":", SP>>
                             \o encode_basestring(d.val[d.order[i]])])
         \o <<NL, "}">>

(***************************************************************************)
(* LangFileParser                                                          *)
(***************************************************************************)
JSON == "json"
LANG == "lang"
None == "None"

\* a line of the LANG format that is neither blank nor a comment
IsContentLine(line) ==
    /\ line # <<>>
    /\ ~startswith(line, <<"#">>)
    /\ ~startswith(line, <<"/", "/">>)

\* "=" in line, and key.strip() and value.strip() are both non-empty
has_key_and_value(line, i) ==
    /\ i # 0
    /\ strip(SubSeq(line, 1, i - 1)) # <<>>
    /\ strip(Tail_from(line, i + 1)) # <<>>

\* the test detect_format makes on a stripped line
is_lang_line(line) == IsContentLine(line) /\ has_key_and_value(line, find(line, EQ))

\* isinstance(json_data, dict) and all(isinstance(v, str) for v in json_data.values())
is_str_dict(json_data) ==
    /\ json_data.ok
    /\ json_data.t = "dict"
    /\ \A k \in Range(json_data.items.order) : json_data.items.val[k].t = "str"

\* detect_format scanning for a LANG line before trying JSON
detect_stripped_lang_first(text) ==
    IF text = <<>> THEN [ok |-> FALSE, fmt |-> None, err |-> "EmptyInput"]
    ELSE IF \E line \in Range(split_nl(text)) : is_lang_line(strip(line))
         THEN [ok |-> TRUE, fmt |-> LANG, err |-> ""]
    ELSE IF is_str_dict(json_loads(text)) THEN [ok |-> TRUE, fmt |-> JSON, err |-> ""]
    ELSE [ok |-> FALSE, fmt |-> None, err |-> "UnrecognizedFormat"]

\* detect_format after "text = text.lstrip(BOM).strip()"
detect_stripped(text) ==
    IF text = <<>> THEN [ok |-> FALSE, fmt |-> None, err |-> "EmptyInput"]
    ELSE IF is_str_dict(json_loads(text)) THEN [ok |-> TRUE, fmt |-> JSON, err |-> ""]
    ELSE IF \E line \in Range(split_nl(text)) : is_lang_line(strip(line))
         THEN [ok |-> TRUE, fmt |-> LANG, err |-> ""]
    ELSE [ok |-> FALSE, fmt |-> None, err |-> "UnrecognizedFormat"]

\* detect_format without ".strip()": only the byte-order mark is removed
detect_format_unstripped(text) == detect_stripped(lstrip_bom(text))

\* LangFileParser.detect_format: [ok, fmt, err]
detect_format(text) == detect_stripped(strip(lstrip_bom(text)))

ParseFail(err) == [ok |-> FALSE, err |-> err, result |-> EmptyDict, keys |-> <<>>]
ParseOk(result, ks) == [ok |-> TRUE, err |-> "", result |-> result, keys |-> ks]

\* the loop body of _parse_lang assigning result[key] for a repeated key too:
\* the last occurrence wins
parse_lang_entry_overwriting(key, value, r) ==
    IF key # <<>> /\ value # <<>>
    THEN [result |-> dict_set(r.result, key, value),
          keys |-> IF dict_has(r.result, key) THEN r.keys ELSE Append(r.keys, key)]
    ELSE r

\* one pass of the loop of _parse_lang over a stripped line whose first "="
\* is at separator_index: the result dict and the key list after it
parse_lang_entry(key, value, r) ==
    IF key # <<>> /\ value # <<>> /\ ~dict_has(r.result, key)
    THEN [result |-> dict_set(r.result, key, value), keys |-> Append(r.keys, key)]
    ELSE r

\* the loop body of _parse_lang without the test "if key not in result"
parse_lang_line_repeating(line, separator_index, r) ==
    IF ~IsContentLine(line) THEN r
    ELSE IF separator_index = 0 THEN r
    ELSE IF strip(SubSeq(line, 1, separator_index - 1)) = <<>> THEN r
    ELSE IF strip(Tail_from(line, separator_index + 1)) = <<>> THEN r
    ELSE [result |-> dict_set(r.result, strip(SubSeq(line, 1, separator_index - 1)),
                              strip(Tail_from(line, separator_index + 1))),
          keys |-> Append(r.keys, strip(SubSeq(line, 1, separator_index - 1)))]

parse_lang_line(line, separator_index, r) ==
    IF ~IsContentLine(line) THEN r
    ELSE IF separator_index = 0 THEN r
    ELSE parse_lang_entry(strip(SubSeq(line, 1, separator_index - 1)),
                          strip(Tail_from(line, separator_index + 1)), r)

parse_lang_stripped(line, r) == parse_lang_line(line, find(line, EQ), r)

\* the loop of LangFileParser._parse_lang over the lines
RECURSIVE parse_lang_lines(_, _)
parse_lang_lines(lines, r) ==
    IF lines = <<>> THEN r
    ELSE parse_lang_lines(Tail(lines), parse_lang_stripped(strip(Head(lines)), r))

parse_result(r) ==
    IF r.result.order = <<>> THEN ParseFail("NoEntriesFound")
    ELSE ParseOk(r.result, r.keys)

\* LangFileParser._parse_lang
_parse_lang(text) ==
    parse_result(parse_lang_lines(split_nl(text), [result |-> EmptyDict, keys |-> <<>>]))

\* the loop body of _parse_json testing "if value" instead of
\* "isinstance(value, str)": an empty string is dropped
parse_json_item_truthy(key, value, r) ==
    IF value.t = "str" /\ value.s # <<>>
    THEN [result |-> dict_set(r.result, key, value.s), keys |-> Append(r.keys, key)]
    ELSE r

\* the loop body of _parse_json without the test "isinstance(value, str)":
\* every member is kept
parse_json_item_any(key, value, r) ==
    [result |-> dict_set(r.result, key, value.s), keys |-> Append(r.keys, key)]

\* one pass of the loop of _parse_json: only str values are kept
parse_json_item(key, value, r) ==
    IF value.t = "str"
    THEN [result |-> dict_set(r.result, key, value.s), keys |-> Append(r.keys, key)]
    ELSE r

\* the loop of LangFileParser._parse_json over json_data.items()
RECURSIVE parse_json_items(_, _, _)
parse_json_items(items, n, r) ==
    IF n > Len(items.order) THEN r
    ELSE parse_json_items(items, n + 1,
                          parse_json_item(items.order[n], items.val[items.order[n]], r))

\* _parse_json after "json_data = json.loads(text)"
parse_json_data(json_data) ==
    IF ~json_data.ok THEN ParseFail("MalformedInput")
    ELSE IF json_data.t # "dict" THEN ParseFail("AttributeError")   \* no .items()
    ELSE parse_result(parse_json_items(json_data.items, 1, [result |-> EmptyDict, keys |-> <<>>]))

\* LangFileParser._parse_json
_parse_json(text) == parse_json_data(json_loads(text))

\* LangFileParser.parse
parse(text, fmt) ==
    IF fmt = LANG THEN _parse_lang(text)
    ELSE IF fmt = JSON THEN _parse_json(text)
    ELSE ParseFail("UnsupportedFormat")

\* the optional keys argument of generate_output
NoKeys == [some |-> FALSE, v |-> <<>>]
SomeKeys(ks) == [some |-> TRUE, v |-> ks]

\* [x for x in s if P(x)] for the keys present in data
RECURSIVE present_keys(_, _)
present_keys(ks, data) ==
    IF ks = <<>> THEN <<>>
    ELSE (IF dict_has(data, Head(ks)) THEN <<Head(ks)>> ELSE <<>>)
         \o present_keys(Tail(ks), data)

\* {key: data[key] for key in keys if key in data}
RECURSIVE dict_comprehension(_, _, _)
dict_comprehension(ks, data, d) ==
    IF ks = <<>> THEN d
    ELSE dict_comprehension(Tail(ks), data,
            IF dict_has(data, Head(ks)) THEN dict_set(d, Head(ks), data.val[Head(ks)]) ELSE d)

\* LangFileParser.generate_output; "keys or data.keys()" and "if keys:" take
\* the fallback for None and for the empty list alike
generate_output(data, fmt, ks) ==
    LET truthy == ks.some /\ ks.v # <<>>
    IN  IF fmt = LANG THEN
            LET order == present_keys(IF truthy THEN ks.v ELSE data.order, data)
            IN  join(<<NL>>, [i \in 1..Len(order) |-> order[i] \o <<EQ>> \o data.val[order[i]]])
        ELSE IF truthy THEN json_dumps(dict_comprehension(ks.v, data, EmptyDict))
        ELSE json_dumps(data)

(***************************************************************************)
(* TextElement                                                             *)
(***************************************************************************)
\* TextElement.__init__
TextElement(key, original_text) ==
    [key |-> key, original_text |-> original_text, translated_text |-> <<>>, _changed |-> FALSE]

\* TextElement.is_translated
is_translated(e) == strip(e.translated_text) # <<>>

\* set_translated_text without the comparison with the current text
set_translated_text_always_changed(e, text) ==
    [e EXCEPT !.translated_text = text, !._changed = TRUE]

\* set_translated_text assigning the outcome of the comparison to the flag
set_translated_text_flag_assigned(e, text) ==
    [e EXCEPT !.translated_text = text, !._changed = (text # e.translated_text)]

\* TextElement.set_translated_text
set_translated_text(e, text) ==
    IF text # e.translated_text
    THEN [e EXCEPT !.translated_text = text, !._changed = TRUE]
    ELSE e

\* reset without "self._changed = False"
reset_keeping_changed(e) == [e EXCEPT !.translated_text = <<>>]

\* TextElement.reset
reset(e) == [e EXCEPT !.translated_text = <<>>, !._changed = FALSE]

\* __str__ testing translated_text itself instead of is_translated: a
\* translation of blanks is exported
str_untrimmed(e) == IF e.translated_text # <<>> THEN e.translated_text ELSE e.original_text

\* TextElement.__str__
str(e) == IF is_translated(e) THEN e.translated_text ELSE e.original_text

(***************************************************************************)
(* Input texts.  An original or translated file is a LANG text of up to    *)
(* MaxLines lines, a JSON object of up to MaxMembers members, or one of    *)
(* the special texts (empty, byte-order mark, malformed, not an object).   *)
(***************************************************************************)
MaxLines == 2
MaxMembers == 2

SeqsUpTo(S, n) == UNION {[1..m -> S] : m \in 0..n}

LineSet ==
    { <<"a", EQ, "x">>,
      <<"a", EQ, "y">>,
      <<SP, "b", SP, EQ, SP, "y", SP>> }

MemberSet ==
    { <<QUOTE, "a", QUOTE, ":", QUOTE, "x", QUOTE>>,
      <<QUOTE, "a", QUOTE, ":", QUOTE, "y", QUOTE>>,
      <<QUOTE, "b", QUOTE, ":", SP, QUOTE, "y", QUOTE>> }

LangTexts == {join(<<NL>>, ls) : ls \in SeqsUpTo(LineSet, MaxLines) \ {<<>>}}

JsonTexts == {<<"{">> \o join(<<",">>, ms) \o <<"}">> : ms \in SeqsUpTo(MemberSet, MaxMembers)}

SpecialTexts ==
    { <<>>,
      <<SP, NL>>,
      <<BOM>>,
      <<BOM, "a", EQ, "x">>,
      <<BOM, "{", QUOTE, "a", QUOTE, ":", QUOTE, "x", QUOTE, "}">>,
      <<"{", QUOTE, "a", QUOTE, ":", SP, "}">>,
      <<"[", "1", "]">>,
      <<"{", QUOTE, "a", EQ, "b", QUOTE, ":", "1", "}">>,
      <<"b", EQ>>,
      <<"#", "b", EQ, "x", NL, "a", "b", NL, "a", EQ, "x">>,
      <<"{", QUOTE, "a", QUOTE, ":", QUOTE, QUOTE, "}">>,
      <<"{", QUOTE, "a", QUOTE, ":", QUOTE, "x", QUOTE, ",", QUOTE, "b", QUOTE, ":", "1", "}">> }

Texts == LangTexts \cup JsonTexts \cup SpecialTexts

\* what the user can type into the translation box of an entry
EditTexts == { <<SP>>, <<"z", NL, "w">> }

(***************************************************************************)
(* ModDictionary                                                           *)
(***************************************************************************)
\* what the last call returned: err is "" unless it raised, out is the text
\* export returned
Result(op, err, out) == [op |-> op, err |-> err, out |-> out]

\* the arguments (text, format, data, keys) of a LangFileParser call and what
\* it returned; fn = "none" while no call has been made
Args(text, fmt, data, ks) == [text |-> text, fmt |-> fmt, data |-> data, ks |-> ks]
Ret(fn, ok, err, fmt, result, ks, out) ==
    [fn |-> fn, ok |-> ok, err |-> err, fmt |-> fmt, result |-> result, keys |-> ks, out |-> out]
NoArgs == Args(<<>>, None, EmptyDict, NoKeys)
NoRet == Ret("none", TRUE, "", None, EmptyDict, <<>>, <<>>)

\* the ModDictionary of main.py: its fields and the outcome of the last call
\* made on it
Main(version, fmt, ks, td, l) ==
    [version |-> version, format |-> fmt, keys |-> ks, text_dictionary |-> td, last |-> l]
NoMain == Main("1.16", JSON, <<>>, EmptyDict, Result("none", "", <<>>))

\* a load_original_file call under way: where it is (pc), its argument, the
\* fields of the dictionary when it began, the result parse returned and the
\* keys whose entries are still to be made
Loader(pc, text, before, result, todo) ==
    [pc |-> pc, text |-> text, before |-> before, result |-> result, todo |-> todo]
Fields(fmt, ks, td) == [format |-> fmt, keys |-> ks, text_dictionary |-> td]
NoLoader == Loader("idle", <<>>, Fields(None, <<>>, EmptyDict), EmptyDict, <<>>)

\* ModDictionary.__init__
Init ==
    /\ format = None
    /\ text_dictionary = EmptyDict
    /\ keys = <<>>
    /\ last = Result("init", "", <<>>)
    /\ args = NoArgs
    /\ ret = NoRet
    /\ mod_dictionary = "ModDictionary"
    /\ main = NoMain
    /\ loader = NoLoader

\* the loop "for key in self.keys: self.text_dictionary[key] = TextElement(...)"
RECURSIVE build_elements(_, _, _)
build_elements(ks, result, d) ==
    IF ks = <<>> THEN d
    ELSE build_elements(Tail(ks), result,
                        dict_set(d, Head(ks), TextElement(Head(ks), result.val[Head(ks)])))

\* load_original_file without "self.text_dictionary.clear()": the entries of
\* the previous file stay
load_original_parsed_keeping(fmt, ks, td, d, p) ==
    IF ~d.ok
    THEN [format |-> fmt, keys |-> ks, text_dictionary |-> td, err |-> "LoadFailed"]
    ELSE IF ~p.ok
    THEN [format |-> d.fmt, keys |-> ks, text_dictionary |-> td, err |-> "LoadFailed"]
    ELSE [format |-> d.fmt, keys |-> p.keys,
          text_dictionary |-> build_elements(p.keys, p.result, td), err |-> ""]

\* load_original_file clearing the entries before it parses: a text that
\* fails to parse leaves the old key list with no entries
load_original_parsed_clearing_first(fmt, ks, td, d, p) ==
    IF ~d.ok
    THEN [format |-> fmt, keys |-> ks, text_dictionary |-> td, err |-> "LoadFailed"]
    ELSE IF ~p.ok
    THEN [format |-> d.fmt, keys |-> ks, text_dictionary |-> EmptyDict, err |-> "LoadFailed"]
    ELSE [format |-> d.fmt, keys |-> p.keys,
          text_dictionary |-> build_elements(p.keys, p.result, EmptyDict), err |-> ""]

\* load_original_file after detect_format returned d and, if it did, parse
\* returned p
load_original_parsed(fmt, ks, td, d, p) ==
    IF ~d.ok
    THEN [format |-> fmt, keys |-> ks, text_dictionary |-> td, err |-> "LoadFailed"]
    ELSE IF ~p.ok
    THEN [format |-> d.fmt, keys |-> ks, text_dictionary |-> td, err |-> "LoadFailed"]
    ELSE [format |-> d.fmt, keys |-> p.keys,
          text_dictionary |-> build_elements(p.keys, p.result, EmptyDict), err |-> ""]

load_original_detected(fmt, ks, td, text, d) ==
    load_original_parsed(fmt, ks, td, d, parse(text, d.fmt))

\* ModDictionary.load_original_file: the new [format, keys, text_dictionary]
\* and the error raised, given the current ones
load_original_file(fmt, ks, td, text) ==
    load_original_detected(fmt, ks, td, text, detect_format(text))

LoadOriginalResult(r) ==
    /\ format' = r.format
    /\ keys' = r.keys
    /\ text_dictionary' = r.text_dictionary
    /\ last' = Result("load_original", r.err, <<>>)
    /\ UNCHANGED <<args, ret, mod_dictionary, main, loader>>

LoadOriginal(text) ==
    LoadOriginalResult(load_original_file(format, keys, text_dictionary, text))

\* merge_item without the test "if key in self.text_dictionary": a key of the
\* translated file that the original lacks gets an entry of its own
merge_item_inserting(key, value, td) ==
    dict_set(td, key,
             set_translated_text(IF dict_has(td, key) THEN td.val[key]
                                 ELSE TextElement(key, <<>>), value))

\* "if key in self.text_dictionary: self.text_dictionary[key].set_translated_text(value)"
merge_item(key, value, td) ==
    IF dict_has(td, key)
    THEN dict_set(td, key, set_translated_text(td.val[key], value))
    ELSE td

\* the loop "for key, value in result.items(): ..."
RECURSIVE merge_items(_, _, _)
merge_items(result, n, td) ==
    IF n > Len(result.order) THEN td
    ELSE merge_items(result, n + 1, merge_item(result.order[n], result.val[result.order[n]], td))

\* the entries all reset
reset_all(td) == [td EXCEPT !.val = [k \in DOMAIN td.val |-> reset(td.val[k])]]

\* load_translated_file resetting every entry before the merge: an entry the
\* translated file lacks loses its translation
load_translated_parsed_resetting(td, p) ==
    IF ~p.ok THEN [text_dictionary |-> td, err |-> "LoadTranslatedFailed"]
    ELSE [text_dictionary |-> merge_items(p.result, 1, reset_all(td)), err |-> ""]

\* load_translated_file once parse has returned p
load_translated_parsed(td, p) ==
    IF ~p.ok THEN [text_dictionary |-> td, err |-> "LoadTranslatedFailed"]
    ELSE [text_dictionary |-> merge_items(p.result, 1, td), err |-> ""]

\* load_translated_file without its two precondition checks
load_translated_file_unguarded(fmt, td, text) == load_translated_parsed(td, parse(text, fmt))

\* load_translated_file detecting the format of the translated text instead
\* of using self.format
load_translated_file_redetecting(fmt, td, text) ==
    IF td.order = <<>> THEN [text_dictionary |-> td, err |-> "NoOriginalLoaded"]
    ELSE IF fmt = None THEN [text_dictionary |-> td, err |-> "NoOriginalLoaded"]
    ELSE load_translated_parsed(td, parse(text, detect_format(text).fmt))

\* ModDictionary.load_translated_file
load_translated_file(fmt, td, text) ==
    IF td.order = <<>> THEN [text_dictionary |-> td, err |-> "NoOriginalLoaded"]
    ELSE IF fmt = None THEN [text_dictionary |-> td, err |-> "NoOriginalLoaded"]
    ELSE load_translated_parsed(td, parse(text, fmt))

LoadTranslatedResult(r) ==
    /\ text_dictionary' = r.text_dictionary
    /\ last' = Result("load_translated", r.err, <<>>)
    /\ UNCHANGED <<format, keys, args, ret, mod_dictionary, main, loader>>

LoadTranslated(text) ==
    LoadTranslatedResult(load_translated_file(format, text_dictionary, text))

\* the loop of export building output_dict
RECURSIVE output_dict(_, _, _)
output_dict(ks, td, d) ==
    IF ks = <<>> THEN d
    ELSE output_dict(Tail(ks), td,
                     IF dict_has(td, Head(ks))
                     THEN dict_set(d, Head(ks), str(td.val[Head(ks)]))
                     ELSE d)

\* ModDictionary.export: [err, out]
export(fmt, ks, td) ==
    IF fmt = None THEN [err |-> "FormatUnset", out |-> <<>>]
    ELSE [err |-> "",
          out |-> generate_output(output_dict(ks, td, EmptyDict), fmt, SomeKeys(ks))]

\* an export that marks every entry as saved
ExportResult_clearing_changed(r) ==
    /\ last' = Result("export", r.err, r.out)
    /\ text_dictionary' =
           [text_dictionary EXCEPT !.val =
               [k \in DOMAIN text_dictionary.val |->
                   [text_dictionary.val[k] EXCEPT !._changed = FALSE]]]
    /\ UNCHANGED <<format, keys, args, ret, mod_dictionary, main, loader>>

ExportResult(r) ==
    /\ last' = Result("export", r.err, r.out)
    /\ UNCHANGED <<format, keys, text_dictionary, args, ret, mod_dictionary, main, loader>>

Export == ExportResult(export(format, keys, text_dictionary))

\* TranslationItem.save / MainWindow.on_translation_saved: the user saves the
\* text typed for the entry of an existing key
SetTranslatedText(key, text) ==
    /\ dict_has(text_dictionary, key)
    /\ text_dictionary' = dict_set(text_dictionary, key,
                                   set_translated_text(text_dictionary.val[key], text))
    /\ last' = Result("set_translated_text", "", <<>>)
    /\ UNCHANGED <<format, keys, args, ret, mod_dictionary, main, loader>>

\* TranslationItem.reset
Reset(key) ==
    /\ dict_has(text_dictionary, key)
    /\ text_dictionary' = dict_set(text_dictionary, key, reset(text_dictionary.val[key]))
    /\ last' = Result("reset", "", <<>>)
    /\ UNCHANGED <<format, keys, args, ret, mod_dictionary, main, loader>>

\* clear_duplicate_translations without the comparison with the original
\* text: every translated entry is reset
clear_duplicate_any(e) == IF is_translated(e) THEN reset(e) ELSE e

\* the body of the loop of MainWindow.clear_duplicate_translations
clear_duplicate(e) ==
    IF is_translated(e) /\ e.original_text = e.translated_text THEN reset(e) ELSE e

\* MainWindow.clear_duplicate_translations: every translated entry whose
\* translation equals its original text is reset
ClearDuplicateTranslations ==
    /\ text_dictionary' =
           [text_dictionary EXCEPT !.val =
               [k \in DOMAIN text_dictionary.val |-> clear_duplicate(text_dictionary.val[k])]]
    /\ last' = Result("clear_duplicate_translations", "", <<>>)
    /\ UNCHANGED <<format, keys, args, ret, mod_dictionary, main, loader>>

\* the body of the loop of MainWindow.fill_empty_translations
fill_empty(e) == IF ~is_translated(e) THEN set_translated_text(e, e.original_text) ELSE e

\* MainWindow.fill_empty_translations: every untranslated entry gets its
\* original text as translation
FillEmptyTranslations ==
    /\ text_dictionary' =
           [text_dictionary EXCEPT !.val =
               [k \in DOMAIN text_dictionary.val |-> fill_empty(text_dictionary.val[k])]]
    /\ last' = Result("fill_empty_translations", "", <<>>)
    /\ UNCHANGED <<format, keys, args, ret, mod_dictionary, main, loader>>

Next ==
    \/ \E text \in Texts : LoadOriginal(text)
    \/ \E text \in Texts : LoadTranslated(text)
    \/ Export
    \/ \E key \in Range(text_dictionary.order), text \in EditTexts : SetTranslatedText(key, text)
    \/ \E key \in Range(text_dictionary.order) : Reset(key)
    \/ ClearDuplicateTranslations
    \/ FillEmptyTranslations

Spec == Init /\ [][Next]_vars

(***************************************************************************)
(* LangFileParser called on its own: detect_format, parse and              *)
(* generate_output are static methods; a call takes its arguments from     *)
(* the sets below and leaves its return value in ret.                      *)
(***************************************************************************)
MaxOrder == 2

CodecSpecialTexts ==
    { <<"{", QUOTE, "a", EQ, "b", QUOTE, ":", QUOTE, "x", QUOTE, "}">>,
      <<"{", QUOTE, "a", QUOTE, ":", "1", "}">>,
      <<QUOTE, "a", QUOTE>>,
      <<BOM, "#", "b", EQ, "x">>,
      <<SP, BOM>>,
      <<"a", EQ, "b", EQ, "c">>,
      <<EQ, "x">>,
      <<"/", "/", "a", EQ, "x">> }

CodecTexts == Texts \cup CodecSpecialTexts

Formats == {LANG, JSON}

\* the data argument of generate_output: a dict of str to str
PairSet == { [k |-> <<"a">>, v |-> <<"x">>], [k |-> <<"b">>, v |-> <<"y">>] }
DataSet == {dict_from_pairs(EmptyDict, ps) : ps \in SeqsUpTo(PairSet, MaxMembers)}

\* the keys argument of generate_output: omitted, or a list of keys
KeySet == { <<"a">>, <<"b">>, <<"c">> }
KeysArgs == {NoKeys} \cup {SomeKeys(o) : o \in SeqsUpTo(KeySet, MaxOrder)}

CodecArgs ==
    {Args(t, f, EmptyDict, NoKeys) : t \in CodecTexts, f \in Formats}
    \cup {Args(<<>>, f, d, ks) : f \in Formats, d \in DataSet, ks \in KeysArgs}

InitCodec ==
    /\ format = None
    /\ text_dictionary = EmptyDict
    /\ keys = <<>>
    /\ last = Result("init", "", <<>>)
    /\ args \in CodecArgs
    /\ ret = NoRet
    /\ mod_dictionary = "ModDictionary"
    /\ main = NoMain
    /\ loader = NoLoader

DetectFormatResult(d) ==
    /\ ret' = Ret("detect_format", d.ok, d.err, d.fmt, EmptyDict, <<>>, <<>>)
    /\ UNCHANGED <<format, keys, text_dictionary, last, args, mod_dictionary, main, loader>>

\* LangFileParser.detect_format(text)
DetectFormat == DetectFormatResult(detect_format(args.text))

ParseResult(p) ==
    /\ ret' = Ret("parse", p.ok, p.err, None, p.result, p.keys, <<>>)
    /\ UNCHANGED <<format, keys, text_dictionary, last, args, mod_dictionary, main, loader>>

\* LangFileParser.parse(text, format)
Parse == ParseResult(parse(args.text, args.fmt))

\* LangFileParser.generate_output(data, format, keys)
GenerateOutput ==
    /\ ret' = Ret("generate_output", TRUE, "", None, EmptyDict, <<>>,
                  generate_output(args.data, args.fmt, args.ks))
    /\ UNCHANGED <<format, keys, text_dictionary, last, args, mod_dictionary, main, loader>>

NextCodec ==
    \/ DetectFormat
    \/ Parse
    \/ GenerateOutput

SpecCodec == InitCodec /\ [][NextCodec]_vars

\* ---------------------------------------------------------------------------
\* MainWindow: the window holds one dictionary, self.mod_dictionary, which is
\* None or a ModDictionary; format, keys and text_dictionary are the fields of
\* that ModDictionary (those of a fresh one while the window holds None)

\* MainWindow.__init__: self.mod_dictionary = None
InitUI ==
    /\ format = None
    /\ text_dictionary = EmptyDict
    /\ keys = <<>>
    /\ last = Result("init", "", <<>>)
    /\ args = NoArgs
    /\ ret = NoRet
    /\ mod_dictionary = None
    /\ main = NoMain
    /\ loader = NoLoader

\* MainWindow.open_original_file once the file has been read: a new
\* ModDictionary is assigned to self.mod_dictionary, then load_original_file
\* is called on it; an exception is shown in a message box and nothing else
OpenOriginalFileResult(r) ==
    /\ mod_dictionary' = "ModDictionary"
    /\ format' = r.format
    /\ keys' = r.keys
    /\ text_dictionary' = r.text_dictionary
    /\ last' = Result("open_original_file", r.err, <<>>)
    /\ UNCHANGED <<args, ret, main, loader>>

OpenOriginalFile(text) ==
    OpenOriginalFileResult(load_original_file(None, <<>>, EmptyDict, text))

\* MainWindow.open_original_file when reading the file raises (OSError,
\* UnicodeDecodeError): the exception is shown before a ModDictionary is made
OpenOriginalFileUnreadable ==
    /\ last' = Result("open_original_file", "unreadable file", <<>>)
    /\ UNCHANGED <<format, keys, text_dictionary, args, ret, mod_dictionary, main, loader>>

\* MainWindow.open_translated_file: a warning while the window holds no
\* dictionary, otherwise load_translated_file on the dictionary it holds
OpenTranslatedFileResult(r) ==
    IF mod_dictionary = None
    THEN /\ last' = Result("open_translated_file", "warning", <<>>)
         /\ UNCHANGED <<format, keys, text_dictionary, args, ret, mod_dictionary, main, loader>>
    ELSE /\ text_dictionary' = r.text_dictionary
         /\ last' = Result("open_translated_file", r.err, <<>>)
         /\ UNCHANGED <<format, keys, args, ret, mod_dictionary, main, loader>>

OpenTranslatedFile(text) ==
    OpenTranslatedFileResult(load_translated_file(format, text_dictionary, text))

\* MainWindow.save_translation_file once a file name is chosen: returns at
\* once while the window holds no dictionary, otherwise writes export()
SaveTranslationFileResult(r) ==
    /\ last' = IF mod_dictionary = None
               THEN Result("save_translation_file", "returned", <<>>)
               ELSE Result("save_translation_file", r.err, r.out)
    /\ UNCHANGED <<format, keys, text_dictionary, args, ret, mod_dictionary, main, loader>>

SaveTranslationFile == SaveTranslationFileResult(export(format, keys, text_dictionary))

NextUI ==
    \/ \E text \in Texts : OpenOriginalFile(text)
    \/ OpenOriginalFileUnreadable
    \/ \E text \in Texts : OpenTranslatedFile(text)
    \/ \E key \in Range(text_dictionary.order), text \in EditTexts : SetTranslatedText(key, text)
    \/ \E key \in Range(text_dictionary.order) : Reset(key)
    \/ ClearDuplicateTranslations
    \/ FillEmptyTranslations
    \/ SaveTranslationFile

SpecUI == InitUI /\ [][NextUI]_vars

(***************************************************************************)
(* Properties                                                              *)
(***************************************************************************)
\* Every action records its own name in last.op, so last'.op names the
\* operation a step performs.
Failed(l) == l.err # ""

\* the entry stored for key k
Entry(k) == text_dictionary.val[k]

\* No load_original_file call has succeeded yet: a successful load stores the
\* non-empty key list of the parsed file, and nothing else assigns self.keys.
NeverLoaded == keys = <<>>
Loaded == keys # <<>>

\* C1: a failed load_original leaves format, key order and all entries exactly
\* as they were before the call.
C1_LoadOriginalAtomicOnFailure ==
    [][(last'.op = "load_original" /\ Failed(last'))
         => UNCHANGED <<format, keys, text_dictionary>>]_vars

\* C2: as long as no load_original has succeeded, format is unset, export
\* fails with FormatUnset and load_translated fails.
C2_UnsetUntilLoaded ==
    NeverLoaded =>
        /\ format = None
        /\ export(format, keys, text_dictionary).err = "FormatUnset"
        /\ \A t \in Texts : load_translated_file(format, text_dictionary, t).err # ""

\* the (key, text) pairs of a parse result, and of the loaded entries with
\* their effective text
ParsedPairs(p) == {<<k, p.result.val[k]>> : k \in Range(p.keys)}
EffectivePairs == {<<k, str(Entry(k))>> : k \in Range(text_dictionary.order)}

RoundTrips(p) == p.ok /\ ParsedPairs(p) = EffectivePairs

\* C3: in every Loaded state, parsing the text export() returns with the
\* Dictionary's format yields exactly the (key, effective text) pairs of the
\* loaded entries.
C3_ExportParseRoundTrip ==
    Loaded => RoundTrips(parse(export(format, keys, text_dictionary).out, format))

\* The occurrences of keys in a source file, in file order: the well-formed
\* lines of a LANG file, the string-valued members of a JSON object.
LangOccurrence(line, i) ==
    [k |-> strip(SubSeq(line, 1, i - 1)), v |-> strip(Tail_from(line, i + 1))]

RECURSIVE LangOccurrences(_)
LangOccurrences(lines) ==
    IF lines = <<>> THEN <<>>
    ELSE (IF is_lang_line(strip(Head(lines)))
          THEN <<LangOccurrence(strip(Head(lines)), find(strip(Head(lines)), EQ))>>
          ELSE <<>>) \o LangOccurrences(Tail(lines))

RECURSIVE JsonOccurrences(_)
JsonOccurrences(pairs) ==
    IF pairs = <<>> THEN <<>>
    ELSE (IF Head(pairs).v.t = "str"
          THEN <<[k |-> Head(pairs).k, v |-> Head(pairs).v.s]>>
          ELSE <<>>) \o JsonOccurrences(Tail(pairs))

Occurrences(text, fmt) ==
    IF fmt = LANG THEN LangOccurrences(split_nl(text))
    ELSE JsonOccurrences(scan_once(text, skip_ws(text, 1)).pairs)

FirstOccurrenceKept(td, occ) ==
    \A i \in 1..Len(occ) :
        (/\ \A j \in 1..(i - 1) : occ[j].k # occ[i].k
         /\ \E j \in (i + 1)..Len(occ) : occ[j].k = occ[i].k)
        => /\ dict_has(td, occ[i].k)
           /\ td.val[occ[i].k].original_text = occ[i].v

\* what holds of the result r of a successful load_original_file(text)
LoadedFirstOccurrences(r, text) ==
    ~Failed(r) => FirstOccurrenceKept(r.text_dictionary, Occurrences(text, r.format))

\* C4: after a successful load_original, every key that appears more than
\* once in the source file has the value of its first occurrence as
\* original_text, in either format.  Stated of the call in every reachable
\* state of the Dictionary, for every text.
C4_FirstOccurrenceKept ==
    \A t \in Texts :
        LoadedFirstOccurrences(load_original_file(format, keys, text_dictionary, t), t)

\* a state in which the last call was op and returned normally
Succeeded(op) == last.op = op /\ ~Failed(last)

\* C5: load_translated, whether it succeeds or fails, introduces no key,
\* removes no entry and keeps the order of the keys.
C5_MergeKeepsKeys ==
    [][last'.op = "load_translated" =>
         /\ keys' = keys
         /\ text_dictionary'.order = text_dictionary.order
         /\ DOMAIN text_dictionary'.val = DOMAIN text_dictionary.val]_vars

\* a merge has acted on a dictionary of two entries and translated one
C5_Witness ==
    /\ Succeeded("load_translated")
    /\ Len(keys) = 2
    /\ \E k \in Range(keys) : Entry(k).translated_text # <<>>

\* the effective text of an entry: translated_text if non-empty after
\* trimming, else original_text
EffectiveText(e) ==
    IF strip(e.translated_text) # <<>> THEN e.translated_text ELSE e.original_text

EffectiveValues == [order |-> keys, val |-> [k \in Range(keys) |-> EffectiveText(Entry(k))]]
OriginalValues == [order |-> keys, val |-> [k \in Range(keys) |-> Entry(k).original_text]]

\* C6: export() returns the keys in original insertion order, each with its
\* effective text, serialised by generate in the Dictionary's format; with no
\* translation loaded it carries the original text of every key.
C6_ExportEffectiveTexts ==
    Succeeded("export") =>
        /\ last.out = generate_output(EffectiveValues, format, SomeKeys(keys))
        /\ (\A k \in Range(keys) : Entry(k).translated_text = <<>>)
               => last.out = generate_output(OriginalValues, format, SomeKeys(keys))

\* export has acted on entries of which one is translated and another holds
\* a translation that is blank after trimming
C6_Witness ==
    /\ Succeeded("export")
    /\ \E k1, k2 \in Range(keys) :
           /\ is_translated(Entry(k1))
           /\ Entry(k2).translated_text # <<>>
           /\ ~is_translated(Entry(k2))

\* C7: export() changes neither format, key order nor any entry, and an
\* export() right after an export() returns the same text.
C7_ExportPure ==
    [][last'.op = "export" =>
         /\ UNCHANGED <<format, keys, text_dictionary>>
         /\ (last.op = "export" => last'.out = last.out /\ last'.err = last.err)]_vars

\* export has acted on a dictionary with an edited entry
C7_Witness ==
    /\ Succeeded("export")
    /\ \E k \in Range(keys) : Entry(k)._changed

\* C8: load_translated fails with NoOriginalLoaded whenever there are no
\* entries or no format, and a failed load_translated modifies no entry.
C8_MergeFailsWhole ==
    [][last'.op = "load_translated" =>
         /\ (text_dictionary.order = <<>> \/ format = None) => last'.err = "NoOriginalLoaded"
         /\ Failed(last') => text_dictionary' = text_dictionary]_vars

\* a merge has failed on the translated text while translations were present
C8_Witness ==
    /\ last.op = "load_translated"
    /\ last.err = "LoadTranslatedFailed"
    /\ \E k \in Range(keys) : Entry(k).translated_text # <<>>

\* what holds of the entry of key k after a successful merge of the parse
\* result p
MergedEntry(old, new, k, p) ==
    /\ new.key = old.key
    /\ new.original_text = old.original_text
    /\ IF k \in Range(p.keys)
       THEN new.translated_text = p.result.val[k]
       ELSE new.translated_text = old.translated_text /\ new._changed = old._changed
    /\ (new._changed /\ ~old._changed) => new.translated_text # old.translated_text

Merged(r, p) ==
    ~Failed(r) =>
        /\ p.ok
        /\ r.text_dictionary.order = text_dictionary.order
        /\ \A k \in Range(text_dictionary.order) :
               MergedEntry(Entry(k), r.text_dictionary.val[k], k, p)

\* C9: a successful load_translated sets translated_text to the parsed value
\* for exactly the entries whose key occurs in the parsed text, leaves the
\* other entries as they are, ignores parsed keys that are not in the
\* Dictionary, and newly sets changed only where the value differs.  Stated
\* of the call in every reachable state, for every text.
C9_MergeByKey ==
    \A t \in Texts : Merged(load_translated_file(format, text_dictionary, t), parse(t, format))

\* a merge has translated one entry and left an untouched entry as it was
C9_Witness ==
    /\ Succeeded("load_translated")
    /\ \E k1, k2 \in Range(keys) :
           /\ Entry(k1).translated_text # <<>> /\ Entry(k1)._changed
           /\ Entry(k2).translated_text = <<>> /\ ~Entry(k2)._changed

\* what holds of the result r of a successful load_original_file of a text
\* detected as d and parsed as p
FreshlyLoaded(r, d, p) ==
    ~Failed(r) =>
        /\ d.ok /\ p.ok
        /\ r.format = d.fmt
        /\ r.keys = p.keys
        /\ r.keys # <<>>
        /\ \A i, j \in 1..Len(r.keys) : r.keys[i] = r.keys[j] => i = j
        /\ r.text_dictionary.order = r.keys
        /\ DOMAIN r.text_dictionary.val = Range(r.keys)
        /\ \A k \in Range(r.keys) :
               r.text_dictionary.val[k] =
                   [key |-> k, original_text |-> p.result.val[k],
                    translated_text |-> <<>>, _changed |-> FALSE]

FreshlyLoadedFrom(r, t, d) == FreshlyLoaded(r, d, parse(t, d.fmt))

\* C10: a successful load_original from any state yields exactly one entry
\* per key of the new file, in file order, each with empty translated_text
\* and changed false, and nothing of the previously loaded file.  Stated of
\* the call in every reachable state, for every text.
C10_LoadReplacesAll ==
    \A t \in Texts :
        FreshlyLoadedFrom(load_original_file(format, keys, text_dictionary, t), t, detect_format(t))

\* a load has succeeded and left two fresh entries
C10_Witness ==
    /\ Succeeded("load_original")
    /\ Len(keys) = 2
    /\ \A k \in Range(keys) : Entry(k).translated_text = <<>> /\ ~Entry(k)._changed
\* the operations that reset an entry or replace the entries by new ones
ResetsEntries(op) == op \in {"reset", "clear_duplicate_translations", "load_original"}

\* the entry of key k after the step
EntryAfter(k) == text_dictionary'.val[k]

\* C11 as stated: between two loads of an original file, whatever operation
\* is performed, an entry whose changed flag is true keeps it true, and a
\* flag that becomes true does so in a set call that gave translated_text a
\* different value.
C11_ChangedMonotone ==
    [][last'.op # "load_original" =>
         \A k \in Range(text_dictionary.order) :
             /\ Entry(k)._changed => EntryAfter(k)._changed
             /\ (~Entry(k)._changed /\ EntryAfter(k)._changed)
                    => EntryAfter(k).translated_text # Entry(k).translated_text]_vars

\* C11 amended: the changed flag stays true until the entry is reset (reset,
\* clear_duplicate_translations) or replaced (load_original): set calls,
\* load_translated and export never turn it false; a reset turns it false;
\* and it becomes true only in a set call (an edit, a merge or
\* fill_empty_translations) that gave translated_text a different value.
C11_ChangedUntilReset ==
    [][\A k \in Range(text_dictionary.order) :
         /\ ~ResetsEntries(last'.op) => (Entry(k)._changed => EntryAfter(k)._changed)
         /\ last'.op = "reset" =>
                (EntryAfter(k) = Entry(k) \/ EntryAfter(k) = reset(Entry(k)))
         /\ (last'.op # "load_original" /\ ~Entry(k)._changed /\ EntryAfter(k)._changed)
                => /\ last'.op \in {"set_translated_text", "load_translated",
                                    "fill_empty_translations"}
                   /\ EntryAfter(k).translated_text # Entry(k).translated_text]_vars

\* an entry has been reset while another entry, changed by an edit, has kept
\* its flag
C11_Witness ==
    /\ last.op = "reset"
    /\ \E k1, k2 \in Range(keys) :
           /\ Entry(k1)._changed /\ Entry(k1).translated_text = <<"z", NL, "w">>
           /\ ~Entry(k2)._changed /\ Entry(k2).translated_text = <<>>
\* no element occurs twice in the sequence
Distinct(s) == \A i, j \in 1..Len(s) : s[i] = s[j] => i = j

\* C12: in every reachable state the ordered key list holds no key twice,
\* the entries are stored under exactly those keys, and each entry carries
\* the key it is stored under.
C12_KeysDistinct ==
    /\ Distinct(keys)
    /\ Distinct(text_dictionary.order)
    /\ Range(keys) = Range(text_dictionary.order)
    /\ \A k \in Range(text_dictionary.order) : Entry(k).key = k

\* two entries are loaded, edited and cleared of duplicate translations
C12_Witness ==
    /\ last.op = "clear_duplicate_translations"
    /\ Len(keys) = 2
    /\ \E k \in Range(keys) : Entry(k)._changed
(***************************************************************************)
(* The formats as the specification describes them                         *)
(***************************************************************************)
\* the text with a leading byte-order mark and the surrounding whitespace
\* removed
Cleaned(text) == strip(lstrip_bom(text))

Lines(text) == split_nl(text)

\* the text is a JSON object all of whose values are strings
JsonStringObject(text) ==
    LET j == json_loads(text)
    IN  /\ j.ok
        /\ j.t = "dict"
        /\ \A k \in Range(j.items.order) : j.items.val[k].t = "str"

\* i is the position of the first "=" of the line
IsFirstSeparator(line, i) ==
    /\ i \in 1..Len(line)
    /\ line[i] = EQ
    /\ \A j \in 1..(i - 1) : line[j] # EQ

\* a trimmed line is a well-formed key=value line: not blank, not a comment,
\* and split at its first "=" both sides are non-empty after trimming
WellFormed(line) ==
    /\ line # <<>>
    /\ line[1] # "#"
    /\ ~(Len(line) >= 2 /\ line[1] = "/" /\ line[2] = "/")
    /\ \E i \in 1..Len(line) :
           /\ IsFirstSeparator(line, i)
           /\ strip(SubSeq(line, 1, i - 1)) # <<>>
           /\ strip(SubSeq(line, i + 1, Len(line))) # <<>>

\* the (key, value) entry of a well-formed line
EntryAt(line, i) ==
    [k |-> strip(SubSeq(line, 1, i - 1)), v |-> strip(SubSeq(line, i + 1, Len(line)))]

EntryOf(line) == EntryAt(line, CHOOSE i \in 1..Len(line) : IsFirstSeparator(line, i))

HasWellFormedLine(text) == \E n \in 1..Len(Lines(text)) : WellFormed(strip(Lines(text)[n]))

\* the entries of the well-formed lines, in file order
RECURSIVE EntriesOf(_)
EntriesOf(lines) ==
    IF lines = <<>> THEN <<>>
    ELSE (IF WellFormed(strip(Head(lines))) THEN <<EntryOf(strip(Head(lines)))>> ELSE <<>>)
         \o EntriesOf(Tail(lines))

WellFormedEntries(text) == EntriesOf(Lines(text))

\* the entries whose key no earlier entry has, in order
RECURSIVE FirstOccurrences(_)
FirstOccurrences(es) ==
    IF es = <<>> THEN <<>>
    ELSE IF \E j \in 1..(Len(es) - 1) : es[j].k = es[Len(es)].k
    THEN FirstOccurrences(SubSeq(es, 1, Len(es) - 1))
    ELSE Append(FirstOccurrences(SubSeq(es, 1, Len(es) - 1)), es[Len(es)])

\* the ordered (key, value) list a parse call returned
Returned(r) == [i \in 1..Len(r.keys) |-> [k |-> r.keys[i], v |-> r.result.val[r.keys[i]]]]

\* parse returned exactly the entries es, or failed for want of any
ReturnedOrNoEntries(r, es) ==
    IF es = <<>> THEN ~r.ok /\ r.err = "NoEntriesFound"
    ELSE r.ok /\ Returned(r) = es /\ r.result.order = r.keys

\* C13 as stated: for every text with at least one well-formed key=value
\* line, detect returns line format, and parse in line format returns
\* exactly the well-formed entries in file order, deduplicated by first
\* occurrence.  detect looks at the text without a leading byte-order mark
\* and surrounding whitespace, parse at the text as given.
C13_WellFormedLineIsLang ==
    /\ (ret.fn = "detect_format" /\ HasWellFormedLine(Cleaned(args.text)))
           => ret.ok /\ ret.fmt = LANG
    /\ (ret.fn = "parse" /\ args.fmt = LANG /\ HasWellFormedLine(args.text))
           => ReturnedOrNoEntries(ret, FirstOccurrences(WellFormedEntries(args.text)))

\* C13 amended: for every text that is not a JSON object of strings and that,
\* once a leading byte-order mark and the surrounding whitespace are removed,
\* has a well-formed key=value line, detect returns line format; and parse
\* in line format returns, for every text, exactly the well-formed entries of
\* the text as given, in file order, deduplicated by first occurrence, and
\* fails with NoEntriesFound when there is none.
C13_LangDetectedAndParsed ==
    /\ (/\ ret.fn = "detect_format"
        /\ ~JsonStringObject(Cleaned(args.text))
        /\ HasWellFormedLine(Cleaned(args.text))) => ret.ok /\ ret.fmt = LANG
    /\ (ret.fn = "parse" /\ args.fmt = LANG) =>
           ReturnedOrNoEntries(ret, FirstOccurrences(WellFormedEntries(args.text)))

\* parse in line format has returned fewer entries than the text has
\* well-formed lines: a repeated key was dropped
C13_Witness ==
    /\ ret.fn = "parse"
    /\ args.fmt = LANG
    /\ ret.ok
    /\ Len(ret.keys) < Len(WellFormedEntries(args.text))
\* the (key, value) pairs of the JSON object the text denotes, in the
\* object's key order
ObjectOf(text) == json_loads(text).items

ObjectPairs(text) ==
    [i \in 1..Len(ObjectOf(text).order) |->
        [k |-> ObjectOf(text).order[i], v |-> ObjectOf(text).val[ObjectOf(text).order[i]].s]]

\* C14 as stated: for every text that is a JSON object whose values are all
\* strings, detect returns JSON format and parse in JSON format returns all
\* of the object's key/value pairs in the object's key order.
C14_JsonObjectParsedWhole ==
    JsonStringObject(args.text) =>
        /\ ret.fn = "detect_format" => ret.ok /\ ret.fmt = JSON
        /\ (ret.fn = "parse" /\ args.fmt = JSON) =>
               /\ ret.ok
               /\ Returned(ret) = ObjectPairs(args.text)

\* C14 amended: for every text that is a JSON object whose values are all
\* strings, detect returns JSON format, and parse in JSON format returns all
\* of the object's key/value pairs in the object's key order if the object
\* has a member, and fails with NoEntriesFound if it has none.
C14_JsonObjectParsed ==
    JsonStringObject(args.text) =>
        /\ ret.fn = "detect_format" => ret.ok /\ ret.fmt = JSON
        /\ (ret.fn = "parse" /\ args.fmt = JSON) =>
               ReturnedOrNoEntries(ret, ObjectPairs(args.text))

\* parse in JSON format has returned the two members of an object, one of
\* them written with whitespace in the text
C14_Witness ==
    /\ ret.fn = "parse"
    /\ args.fmt = JSON
    /\ JsonStringObject(args.text)
    /\ ret.ok
    /\ Len(ret.keys) = 2
\* the load rb of the text prefixed with a byte-order mark agrees with the
\* load r of the text itself
SameOriginals(r, rb) ==
    /\ ~Failed(rb)
    /\ rb.format = r.format
    /\ rb.keys = r.keys
    /\ \A k \in Range(r.keys) :
           /\ dict_has(rb.text_dictionary, k)
           /\ rb.text_dictionary.val[k].original_text = r.text_dictionary.val[k].original_text

BomTolerated(r, rb) == ~Failed(r) => SameOriginals(r, rb)

\* C15: for every text load_original accepts, load_original of the text
\* prefixed with a byte-order mark also succeeds and yields the same format,
\* the same keys in the same order and the same original texts.  Stated of
\* the call in every reachable state of the Dictionary.
C15_BomTolerated ==
    \A t \in Texts :
        BomTolerated(load_original_file(format, keys, text_dictionary, t),
                     load_original_file(format, keys, text_dictionary, <<BOM>> \o t))
\* C16: for every text and format, parse either returns a non-empty ordered
\* list of entries or fails with NoEntriesFound or MalformedInput; it never
\* returns an empty result and never fails with another kind of error, a
\* JSON text whose top level is not an object included.
C16_ParseEntriesOrKnownError ==
    ret.fn = "parse" =>
        IF ret.ok
        THEN ret.keys # <<>> /\ ret.result.order # <<>>
        ELSE ret.err \in {"NoEntriesFound", "MalformedInput"}

\* the keys of the order list that are present in values, in the order given
RECURSIVE Present(_, _)
Present(order, values) ==
    IF order = <<>> THEN <<>>
    ELSE (IF Head(order) \in Range(values.order) THEN <<Head(order)>> ELSE <<>>)
         \o Present(Tail(order), values)

\* the keys generate is to emit: those of the order list, or of values
\* itself when the list is omitted
EmittedOrder(values, ks) == IF ks.some THEN Present(ks.v, values) ELSE values.order

\* one line key=value per emitted key, joined with newlines
LineText(values, order) ==
    join(<<NL>>, [i \in 1..Len(order) |-> order[i] \o <<EQ>> \o values.val[order[i]]])

\* the object restricted to the emitted keys, in that order, serialised
ObjectText(values, order) ==
    json_dumps(dict_from_pairs(EmptyDict,
                               [i \in 1..Len(order) |-> [k |-> order[i], v |-> values.val[order[i]]]]))

Generated(values, fmt, order) ==
    IF fmt = LANG THEN LineText(values, order) ELSE ObjectText(values, order)

\* C17: in both formats and for every order list, the empty list included,
\* generate emits exactly the keys of order that are present in values, in
\* the order given, each with its value from values; only when order is
\* omitted does it fall back to the iteration order of values.
C17_GenerateFollowsOrder ==
    ret.fn = "generate_output" =>
        ret.out = Generated(args.data, args.fmt, EmittedOrder(args.data, args.ks))
\* C18: detect classifies a text (looked at without a leading byte-order
\* mark and surrounding whitespace) as JSON format exactly if it parses as a
\* JSON object all of whose values are strings, whether or not it has a line
\* with "="; any other text, a JSON object with a non-string value included,
\* is classified as line format if and only if it has a well-formed
\* key=value line.
C18_DetectJsonFirst ==
    ret.fn = "detect_format" =>
        /\ (ret.ok /\ ret.fmt = JSON) <=> JsonStringObject(Cleaned(args.text))
        /\ ~JsonStringObject(Cleaned(args.text)) =>
               ((ret.ok /\ ret.fmt = LANG) <=> HasWellFormedLine(Cleaned(args.text)))

\* detect has classified a JSON object with a non-string value as line format
C18_Witness ==
    /\ ret.fn = "detect_format"
    /\ ret.ok
    /\ ret.fmt = LANG
    /\ json_loads(Cleaned(args.text)).ok
    /\ json_loads(Cleaned(args.text)).t = "dict"

\* the text consists of byte-order marks followed by whitespace only
EmptyAfterCleaning(text) ==
    \E n \in 0..Len(text) :
        /\ \A i \in 1..n : text[i] = BOM
        /\ \A i \in (n + 1)..Len(text) : IsSpace(text[i])

\* C19: detect fails with EmptyInput exactly when the text is empty after
\* removing a leading byte-order mark and surrounding whitespace, fails with
\* UnrecognizedFormat exactly when the text is non-empty and matches neither
\* the JSON rule nor the line-format rule, and returns a format in all other
\* cases.
C19_DetectErrors ==
    ret.fn = "detect_format" =>
        /\ (~ret.ok /\ ret.err = "EmptyInput") <=> EmptyAfterCleaning(args.text)
        /\ (~ret.ok /\ ret.err = "UnrecognizedFormat") <=>
               (/\ ~EmptyAfterCleaning(args.text)
                /\ ~JsonStringObject(Cleaned(args.text))
                /\ ~HasWellFormedLine(Cleaned(args.text)))
        /\ ret.ok <=> ret.fmt \in Formats
        /\ ret.ok \/ ret.err \in {"EmptyInput", "UnrecognizedFormat"}

\* detect has failed with EmptyInput on a text that is not the empty string
C19_Witness ==
    /\ ret.fn = "detect_format"
    /\ ret.err = "EmptyInput"
    /\ args.text # <<>>
\* the operations that follow the load of the original file
AfterLoadOps ==
    {"load_translated", "export", "set_translated_text", "reset",
     "clear_duplicate_translations", "fill_empty_translations"}

\* the merge r of a text succeeds exactly if the text parses, as p, in the
\* format of the Dictionary
MergeParsedAs(r, p) == Failed(r) <=> ~p.ok

\* C20: load_translated, export, set_translated_text and reset (also through
\* clear_duplicate_translations and fill_empty_translations) change neither
\* format, nor the keys, nor
\* the key or the original_text of any entry; and load_translated parses its
\* text with the format of the Dictionary, whatever format the text itself
\* would be detected as.
C20_OriginalFixed ==
    /\ [](text_dictionary.order # <<>> =>
            \A t \in Texts :
                MergeParsedAs(load_translated_file(format, text_dictionary, t), parse(t, format)))
    /\ [][last'.op \in AfterLoadOps =>
             /\ format' = format
             /\ keys' = keys
             /\ text_dictionary'.order = text_dictionary.order
             /\ \A k \in Range(text_dictionary.order) :
                    /\ EntryAfter(k).key = Entry(k).key
                    /\ EntryAfter(k).original_text = Entry(k).original_text]_vars

\* a merge into a JSON dictionary has given an entry a translation that
\* differs from its original text
C20_Witness ==
    /\ Succeeded("load_translated")
    /\ format = JSON
    /\ \E k \in Range(keys) :
           /\ Entry(k).translated_text # <<>>
           /\ Entry(k).translated_text # Entry(k).original_text
\* C21: in every reachable state, after failed load_original calls too, the
\* ordered key list and the entry map hold exactly the same keys, so the
\* loop of export meets an entry for every key and builds exactly one output
\* entry per key, in key order.
C21_KeysHaveEntries ==
    /\ Range(keys) = DOMAIN text_dictionary.val
    /\ Range(keys) = Range(text_dictionary.order)
    /\ Len(keys) = Cardinality(DOMAIN text_dictionary.val)
    /\ output_dict(keys, text_dictionary, EmptyDict).order = keys

\* a load_original has failed on a Dictionary that holds two entries
C21_Witness ==
    /\ last.op = "load_original"
    /\ Failed(last)
    /\ Len(keys) = 2
\* the text is a JSON object
JsonObject(text) == json_loads(text).ok /\ json_loads(text).t = "dict"

\* the members of the object obj whose value is a string, in key order,
\* from its n-th key on
RECURSIVE StringMembersFrom(_, _)
StringMembersFrom(obj, n) ==
    IF n > Len(obj.order) THEN <<>>
    ELSE (IF obj.val[obj.order[n]].t = "str"
          THEN <<[k |-> obj.order[n], v |-> obj.val[obj.order[n]].s]>>
          ELSE <<>>) \o StringMembersFrom(obj, n + 1)

StringMembers(text) == StringMembersFrom(ObjectOf(text), 1)

\* the merge r of the string members ms into the entries: it fails only if
\* there is no string member, the entries of their keys get their values,
\* and every other entry stays as it is
MergedStringMembers(r, ms) ==
    /\ Failed(r) <=> ms = <<>>
    /\ ~Failed(r) =>
           \A k \in Range(text_dictionary.order) :
               IF \E i \in 1..Len(ms) : ms[i].k = k
               THEN \E i \in 1..Len(ms) :
                        ms[i].k = k /\ r.text_dictionary.val[k].translated_text = ms[i].v
               ELSE r.text_dictionary.val[k] = Entry(k)

\* C22: for every text that is a JSON object, parse in JSON format returns
\* exactly the members whose value is a string, in the object's key order,
\* and fails (with NoEntriesFound) only if there is none; and load_translated
\* of such a text into a JSON Dictionary merges exactly its string-valued
\* members.  Stated of the calls in every reachable state, for the texts
\* with and without non-string values.
C22_JsonStringValuesOnly ==
    \A t \in SpecialTexts :
        JsonObject(t) =>
            /\ ReturnedOrNoEntries(parse(t, JSON), StringMembers(t))
            /\ (format = JSON /\ text_dictionary.order # <<>>) =>
                   MergedStringMembers(load_translated_file(format, text_dictionary, t),
                                       StringMembers(t))

\* a merge into a JSON Dictionary with the entries a and b has translated a
\* and left b untranslated, as the merge of {"a":"x","b":1} does
C22_Witness ==
    /\ Succeeded("load_translated")
    /\ format = JSON
    /\ keys = << <<"a">>, <<"b">> >>
    /\ Entry(<<"a">>).translated_text = <<"x">>
    /\ Entry(<<"b">>).translated_text = <<>>
\* C23: whenever detect succeeds on a text, parse of the same text with the
\* detected format succeeds too.
C23_DetectedTextParses ==
    (/\ ret.fn = "parse"
     /\ detect_format(args.text).ok
     /\ args.fmt = detect_format(args.text).fmt) => ret.ok
\* C24 as stated: a successful load_translated never turns a translated
\* entry into an untranslated one.
C24_MergeKeepsTranslated ==
    [][(last'.op = "load_translated" /\ ~Failed(last')) =>
         \A k \in Range(text_dictionary.order) :
             is_translated(Entry(k)) => is_translated(EntryAfter(k))]_vars

\* the merge r of the parse result p has turned a translated entry into an
\* untranslated one only where p gives the key a blank value, which only a
\* JSON file can
BlankedOnlyByFile(r, p) ==
    ~Failed(r) =>
        \A k \in Range(text_dictionary.order) :
            (is_translated(Entry(k)) /\ ~is_translated(r.text_dictionary.val[k]))
                => /\ format = JSON
                   /\ dict_has(p.result, k)
                   /\ strip(p.result.val[k]) = <<>>

\* C24 amended: a successful load_translated turns a translated entry into
\* an untranslated one only if the translated file gives the entry's key a
\* value that is empty after trimming, which only a JSON file can; in line
\* format, and for every other entry in JSON format, is_translated stays
\* true.  Stated of the call in every reachable state, for every text.
C24_MergeBlanksOnlyByFile ==
    \A t \in Texts :
        BlankedOnlyByFile(load_translated_file(format, text_dictionary, t), parse(t, format))

\* a merge has emptied the translation of an entry that had one
C24_Witness ==
    /\ Succeeded("load_translated")
    /\ format = JSON
    /\ \E k \in Range(keys) : Entry(k)._changed /\ Entry(k).translated_text = <<>>
\* C25: a reset step leaves the entry it acts on as load_original created
\* it (translated_text empty, changed false), so that is_translated is false
\* and the effective text is original_text, whatever state the entry was
\* in; and a set_translated_text step that gives an entry the translated_text
\* it already has changes nothing.
C25_ResetIsFresh ==
    [][/\ last'.op = "reset" =>
              \E k \in Range(text_dictionary.order) :
                  /\ text_dictionary' =
                         dict_set(text_dictionary, k, TextElement(k, Entry(k).original_text))
                  /\ ~is_translated(EntryAfter(k))
                  /\ str(EntryAfter(k)) = Entry(k).original_text
       /\ (/\ last'.op = "set_translated_text"
           /\ \A k \in Range(text_dictionary.order) :
                  EntryAfter(k).translated_text = Entry(k).translated_text)
              => text_dictionary' = text_dictionary]_vars

\* the only entry of a JSON Dictionary has been reset
C25_Witness ==
    /\ last.op = "reset"
    /\ format = JSON
    /\ Len(keys) = 1
    /\ Entry(keys[1]) = TextElement(keys[1], Entry(keys[1]).original_text)
\* the bulk operations of the translation window
BulkOps == {"clear_duplicate_translations", "fill_empty_translations"}

\* C26: a clear_duplicate_translations or fill_empty_translations step never
\* changes what export() returns: the export of the state after the step is
\* the export of the state before it.
C26_BulkOpsKeepExport ==
    [][last'.op \in BulkOps =>
         export(format', keys', text_dictionary') = export(format, keys, text_dictionary)]_vars

\* fill_empty_translations has acted on a Dictionary of two entries, one
\* translated by hand and one now carrying its original text as translation
C26_Witness ==
    /\ last.op = "fill_empty_translations"
    /\ \E k1, k2 \in Range(keys) :
           /\ Entry(k1).translated_text = <<"z", NL, "w">>
           /\ Entry(k2).translated_text = Entry(k2).original_text
           /\ Entry(k2)._changed
(***************************************************************************)
(* main.py defines TextElement, LangFileParser and ModDictionary a second  *)
(* time.  TextElement, parse and _parse_lang are the text of core.py;      *)
(* _parse_json differs in the wording of its error only.  The definitions  *)
(* below are those that differ.                                            *)
(***************************************************************************)
MinecraftVersion == {"1.12.2", "1.16", "1.18", "1.19", "1.20"}

\* main.get_format_for_version
get_format_for_version(version) == IF version = "1.12.2" THEN LANG ELSE JSON

\* the version main.LangFileParser.detect_format returns with format fmt
main_detect_version(fmt) == IF fmt = JSON THEN "1.16" ELSE "1.12.2"

\* main.LangFileParser.generate_output: [err, out]; the line format reads
\* data[key] for every key of the order
main_generate_output(data, fmt, ks) ==
    LET truthy == ks.some /\ ks.v # <<>>
    IN  IF fmt = LANG THEN
            LET order == IF truthy THEN ks.v ELSE data.order
            IN  IF \E i \in 1..Len(order) : ~dict_has(data, order[i])
                THEN [err |-> "KeyError", out |-> <<>>]
                ELSE [err |-> "",
                      out |-> join(<<NL>>, [i \in 1..Len(order) |->
                                               order[i] \o <<EQ>> \o data.val[order[i]]])]
        ELSE IF fmt = JSON THEN
            [err |-> "",
             out |-> IF truthy THEN json_dumps(dict_comprehension(ks.v, data, EmptyDict))
                     ELSE json_dumps(data)]
        ELSE [err |-> "ValueError", out |-> <<>>]

\* main.ModDictionary.__init__
main_init(version) ==
    Main(version, get_format_for_version(version), <<>>, EmptyDict, Result("init", "", <<>>))

\* main.ModDictionary.load_original_file assigning self.format and
\* self.version only once parse has succeeded
main_load_original_parsed_late(m, d, p) ==
    IF ~d.ok \/ ~p.ok
    THEN [m EXCEPT !.last = Result("load_original", "LoadFailed", <<>>)]
    ELSE Main(main_detect_version(d.fmt), d.fmt, p.keys,
              build_elements(p.keys, p.result, EmptyDict), Result("load_original", "", <<>>))

\* main.ModDictionary.load_original_file after detect_format returned d and,
\* if it did, parse returned p
main_load_original_parsed(m, d, p) ==
    IF ~d.ok
    THEN [m EXCEPT !.last = Result("load_original", "LoadFailed", <<>>)]
    ELSE IF ~p.ok
    THEN [m EXCEPT !.format = d.fmt, !.version = main_detect_version(d.fmt),
                   !.last = Result("load_original", "LoadFailed", <<>>)]
    ELSE Main(main_detect_version(d.fmt), d.fmt, p.keys,
              build_elements(p.keys, p.result, EmptyDict), Result("load_original", "", <<>>))

main_load_original_detected(m, text, d) ==
    main_load_original_parsed(m, d, parse(text, d.fmt))

\* main.ModDictionary.load_original_file
main_load_original_file(m, text) ==
    main_load_original_detected(m, text, detect_format(text))

\* main.ModDictionary.load_translated_file once parse has returned p; an
\* exception of parse is not caught
main_load_translated_parsed(m, p) ==
    IF ~p.ok THEN [m EXCEPT !.last = Result("load_translated", p.err, <<>>)]
    ELSE [m EXCEPT !.text_dictionary = merge_items(p.result, 1, m.text_dictionary),
                   !.last = Result("load_translated", "", <<>>)]

\* main.ModDictionary.load_translated_file
main_load_translated_file(m, text) ==
    IF m.text_dictionary.order = <<>>
    THEN [m EXCEPT !.last = Result("load_translated", "NoOriginalLoaded", <<>>)]
    ELSE main_load_translated_parsed(m, parse(text, m.format))

\* main.ModDictionary.export: [err, out]; "self.text_dictionary[key]" raises
\* for a key without entry
main_export(m) ==
    IF \E i \in 1..Len(m.keys) : ~dict_has(m.text_dictionary, m.keys[i])
    THEN [err |-> "KeyError", out |-> <<>>]
    ELSE main_generate_output(output_dict(m.keys, m.text_dictionary, EmptyDict),
                              m.format, SomeKeys(m.keys))

\* a core.ModDictionary and a main.ModDictionary are made
InitBoth ==
    /\ format = None
    /\ text_dictionary = EmptyDict
    /\ keys = <<>>
    /\ last = Result("init", "", <<>>)
    /\ args = NoArgs
    /\ ret = NoRet
    /\ mod_dictionary = "ModDictionary"
    /\ main \in { main_init(version) : version \in MinecraftVersion }
    /\ loader = NoLoader

\* the same load_original_file call on both
LoadOriginalBothResult(r, m) ==
    /\ format' = r.format
    /\ keys' = r.keys
    /\ text_dictionary' = r.text_dictionary
    /\ last' = Result("load_original", r.err, <<>>)
    /\ main' = m
    /\ UNCHANGED <<args, ret, mod_dictionary, loader>>

LoadOriginalBoth(text) ==
    LoadOriginalBothResult(load_original_file(format, keys, text_dictionary, text),
                           main_load_original_file(main, text))

\* the same load_translated_file call on both
LoadTranslatedBothResult(r, m) ==
    /\ text_dictionary' = r.text_dictionary
    /\ last' = Result("load_translated", r.err, <<>>)
    /\ main' = m
    /\ UNCHANGED <<format, keys, args, ret, mod_dictionary, loader>>

LoadTranslatedBoth(text) ==
    LoadTranslatedBothResult(load_translated_file(format, text_dictionary, text),
                             main_load_translated_file(main, text))

\* export() on both
ExportBothResult(r, e) ==
    /\ last' = Result("export", r.err, r.out)
    /\ main' = [main EXCEPT !.last = Result("export", e.err, e.out)]
    /\ UNCHANGED <<format, keys, text_dictionary, args, ret, mod_dictionary, loader>>

ExportBoth == ExportBothResult(export(format, keys, text_dictionary), main_export(main))

NextBoth ==
    \/ \E text \in Texts : LoadOriginalBoth(text)
    \/ \E text \in Texts : LoadTranslatedBoth(text)
    \/ ExportBoth

SpecBoth == InitBoth /\ [][NextBoth]_vars

\* C28: driven by the same load_original and load_translated calls, the
\* ModDictionary of main.py and that of core.py succeed or fail on the same
\* calls, and once a load_original has succeeded export() returns the same
\* text on both.
C28_DefinitionsAgree ==
    /\ last.op \in {"load_original", "load_translated"} =>
           /\ main.last.op = last.op
           /\ Failed(main.last) <=> Failed(last)
    /\ keys # <<>> =>
           /\ main_export(main) = export(format, keys, text_dictionary)
           /\ ~Failed(export(format, keys, text_dictionary))
           /\ last.op = "export" => main.last = last

\* both have loaded a JSON file and merged a translation, and export() has
\* returned the same text on both
C28_Witness ==
    /\ last.op = "export" /\ ~Failed(last) /\ main.last = last
    /\ format = JSON /\ main.format = JSON /\ main.version = "1.16"
    /\ \E k \in Range(keys) : is_translated(Entry(k)) /\ is_translated(main.text_dictionary.val[k])

(***************************************************************************)
(* One caller runs load_original_file statement by statement while another *)
(* calls export(): the code holds no lock, so an export may run between    *)
(* any two statements of the load.  Merges are made between loads.         *)
(***************************************************************************)
\* "self.format = LangFileParser.detect_format(text)"; an exception ends the
\* call
LoadDetectResult(text, d) ==
    /\ loader.pc = "idle"
    /\ IF d.ok
       THEN /\ format' = d.fmt
            /\ loader' = Loader("detected", text, Fields(format, keys, text_dictionary),
                                EmptyDict, <<>>)
            /\ UNCHANGED last
       ELSE /\ last' = Result("load_original", "LoadFailed", <<>>)
            /\ UNCHANGED <<format, loader>>
    /\ UNCHANGED <<keys, text_dictionary, args, ret, mod_dictionary, main>>

LoadDetect(text) == LoadDetectResult(text, detect_format(text))

\* "result, self.keys = LangFileParser.parse(text, self.format)"; an
\* exception ends the call
LoadParseResult(p) ==
    /\ loader.pc = "detected"
    /\ IF p.ok
       THEN /\ keys' = p.keys
            /\ loader' = [loader EXCEPT !.pc = "parsed", !.result = p.result]
            /\ UNCHANGED last
       ELSE /\ last' = Result("load_original", "LoadFailed", <<>>)
            /\ loader' = NoLoader
            /\ UNCHANGED keys
    /\ UNCHANGED <<format, text_dictionary, args, ret, mod_dictionary, main>>

LoadParse == LoadParseResult(parse(loader.text, format))

\* "self.text_dictionary.clear()"
LoadClear ==
    /\ loader.pc = "parsed"
    /\ text_dictionary' = EmptyDict
    /\ loader' = [loader EXCEPT !.pc = "cleared", !.todo = keys]
    /\ UNCHANGED <<format, keys, last, args, ret, mod_dictionary, main>>

\* one turn of "for key in self.keys: self.text_dictionary[key] = ..."; the
\* call returns after the last
LoadBuild ==
    /\ loader.pc = "cleared"
    /\ text_dictionary' = dict_set(text_dictionary, Head(loader.todo),
                                   TextElement(Head(loader.todo), loader.result.val[Head(loader.todo)]))
    /\ IF Tail(loader.todo) = <<>>
       THEN /\ loader' = NoLoader
            /\ last' = Result("load_original", "", <<>>)
       ELSE /\ loader' = [loader EXCEPT !.todo = Tail(loader.todo)]
            /\ UNCHANGED last
    /\ UNCHANGED <<format, keys, args, ret, mod_dictionary, main>>

\* load_translated_file called while no load_original_file is under way
LoadTranslatedBetween(text) == loader.pc = "idle" /\ LoadTranslated(text)

NextConcurrent ==
    \/ \E text \in Texts : LoadDetect(text)
    \/ LoadParse
    \/ LoadClear
    \/ LoadBuild
    \/ Export
    \/ \E text \in Texts : LoadTranslatedBetween(text)

SpecConcurrent == Init /\ [][NextConcurrent]_vars

\* the fields a whole load_original_file(text) leaves, begun with fields b
AfterLoad(b, text) == load_original_file(b.format, b.keys, b.text_dictionary, text)

\* what export() returns on fields f
ExportOf(f) == export(f.format, f.keys, f.text_dictionary)

\* C29: an export made while a load_original is under way returns what it
\* would have returned before the load began or what it returns after the
\* whole load: it never sees a state in between.
C29_ExportSerialized ==
    loader.pc # "idle" =>
        \/ export(format, keys, text_dictionary) = ExportOf(loader.before)
        \/ export(format, keys, text_dictionary) = ExportOf(AfterLoad(loader.before, loader.text))

\* C27: a failed open_original_file leaves the dictionary the window held,
\* with every translation, in place: format, keys and entries are what they
\* were, and so is what export() returns.
C27_FailedOpenKeepsDictionary ==
    [][(last'.op = "open_original_file" /\ Failed(last') /\ keys # <<>>) =>
         /\ mod_dictionary' = mod_dictionary
         /\ UNCHANGED <<format, keys, text_dictionary>>
         /\ export(format', keys', text_dictionary') = export(format, keys, text_dictionary)]_vars
====
